---- MODULE Spec2Model ----
(***************************************************************************)
(* LuAI: the entry point (index.ts), the configuration module (config.ts), *)
(* the orchestrator, the web and PDF agents and the two text tools          *)
(* (webScraper.ts, pdfParser.ts), as a state machine.                       *)
(*                                                                          *)
(* An async function is modelled by its position (pc) between awaits: one  *)
(* action per segment of code between two suspension points.  Every I/O    *)
(* operation the code issues is put in `inflight` when it is issued and    *)
(* taken out when its promise settles; `trace` records, for each           *)
(* invocation of orchestrate, every call and every I/O operation it makes,  *)
(* in the order the code issues them.                                      *)
(*                                                                          *)
(* Spec is the process of index.ts; SpecTwo is a caller that invokes        *)
(* orchestrate twice; SpecScripts is one run of one of the three browser    *)
(* scripts (previewTarefas and the two downloadTarefas); SpecSplit,         *)
(* SpecNormalize and SpecReply apply the text functions on their own.       *)
(***************************************************************************)
EXTENDS Integers, Sequences, FiniteSets, TLC

\* ------------------------------------------------------------------ bounds

\* Longest urls / pdfPaths list of a CaseInput.
MaxSrc == 2
\* Longest reply text (in characters) the split is applied to in SpecSplit.
MaxLen == 7
\* Most runs of a raw text in SpecNormalize.
MaxRuns == 3
\* Most content blocks of a final message in SpecReply.
MaxBlocks == 3
\* The largest number of tasks the API returns.
MaxTasks == 2
\* The largest height the task page grows to.
MaxHeight == 2

\* --------------------------------------------------------------- constants

\* webAgent.ts:15 and pdfAgent.ts:22: slice(0, 150_000)
MaxContentChars == 150000
\* webAgent.ts:20 and pdfAgent.ts:26: max_tokens of an agent's request
AgentMaxTokens == 4096
\* orchestrator.ts:52: max_tokens of the synthesis request
SynthMaxTokens == 8192
\* part_001:103: the scroll loop runs at most 30 times.
MaxScrolls == 30

\* ------------------------------------------------------------ optional values

\* A value that may be undefined (an omitted property, an unset environment
\* variable, a promise that has not resolved).
None == [some |-> FALSE]
Some(v) == [some |-> TRUE, val |-> v]

\* a ?? b
Coalesce(a, b) == IF a.some THEN a.val ELSE b

\* ------------------------------------------------------------------- strings
\* Two representations, by what the code does with the string.
\*  Str : a sequence of pieces, each a non-empty string; the string is their
\*        concatenation.  Reply texts are sequences of single characters.
\*  Text: a run-length encoding, a sequence of runs [ch, n] (n >= 1 times the
\*        character ch), so that extracted texts longer than 150000
\*        characters are values of the model.

Newline == "\n"
Space == " "
\* The characters /\s/ matches and trim() removes, among those of the model.
WhiteSpace == {" ", "\n", "\t"}

Run(c, n) == [ch |-> c, n |-> n]

RECURSIVE TextLen(_)
TextLen(t) ==
    IF t = <<>> THEN 0 ELSE Head(t).n + TextLen(Tail(t))

\* The runs of t with adjacent runs of one character merged: the canonical
\* encoding of the same string.
RECURSIVE Canon(_)
Canon(t) ==
    IF Len(t) <= 1 THEN t
    ELSE IF t[1].ch = t[2].ch
         THEN Canon(<<Run(t[1].ch, t[1].n + t[2].n)>> \o SubSeq(t, 3, Len(t)))
         ELSE <<t[1]>> \o Canon(Tail(t))

\* String.prototype.slice(0, n) with n >= 0: the first n characters.
RECURSIVE Slice(_, _)
Slice(t, n) ==
    IF t = <<>> \/ n <= 0 THEN <<>>
    ELSE IF Head(t).n <= n
         THEN <<Head(t)>> \o Slice(Tail(t), n - Head(t).n)
         ELSE <<Run(Head(t).ch, n)>>

\* t without its leading whitespace runs.
RECURSIVE DropSpace(_)
DropSpace(t) ==
    IF t # <<>> /\ Head(t).ch \in WhiteSpace THEN DropSpace(Tail(t)) ELSE t

\* t without its trailing whitespace runs.
RECURSIVE DropSpaceEnd(_)
DropSpaceEnd(t) ==
    IF t # <<>> /\ t[Len(t)].ch \in WhiteSpace
    THEN DropSpaceEnd(SubSeq(t, 1, Len(t) - 1))
    ELSE t

\* replace(/\s+/g, " "): every maximal run of whitespace becomes one space.
RECURSIVE ReplaceSpaceRuns(_)
ReplaceSpaceRuns(t) ==
    IF t = <<>> THEN <<>>
    ELSE IF Head(t).ch \in WhiteSpace
         THEN <<Run(Space, 1)>> \o ReplaceSpaceRuns(DropSpace(t))
         ELSE <<Head(t)>> \o ReplaceSpaceRuns(Tail(t))

\* A faulty trim: trimStart() only.
TrimStartOnly(t) == DropSpace(t)

\* trim()
Trim(t) == DropSpaceEnd(DropSpace(t))

\* .replace(/\s+/g, " ").trim()
NormalizeWhitespace(t) == Trim(ReplaceSpaceRuns(t))

\* webScraper.ts: content of the fetched page.
FetchWebPageContent(body) == NormalizeWhitespace(body)

\* pdfParser.ts: text of parsePdfFile / of parsePdfBuffer.
ParsePdfFileText(dataText) == NormalizeWhitespace(dataText)

ParsePdfBufferText(dataText) == NormalizeWhitespace(dataText)

\* ---------------------------------------------------------------- Str helpers

DoubleNewline == <<Newline, Newline>>

\* The least i with s[i] = s[i+1] = "\n", or 0.
FirstDoubleNewline(s) ==
    LET hits == {i \in 1..(Len(s) - 1) : s[i] = Newline /\ s[i + 1] = Newline}
    IN  IF hits = {} THEN 0
        ELSE CHOOSE i \in hits : \A j \in hits : i <= j

\* String.prototype.split("\n\n"): the pieces between the occurrences of the
\* separator, found left to right without overlap.
RECURSIVE SplitDoubleNewline(_)
SplitDoubleNewline(s) ==
    LET i == FirstDoubleNewline(s)
    IN  IF i = 0 THEN <<s>>
        ELSE <<SubSeq(s, 1, i - 1)>> \o SplitDoubleNewline(SubSeq(s, i + 2, Len(s)))

\* Array.prototype.join(sep)
RECURSIVE Join(_, _)
Join(parts, sep) ==
    IF parts = <<>> THEN <<>>
    ELSE IF Len(parts) = 1 THEN parts[1]
    ELSE parts[1] \o sep \o Join(Tail(parts), sep)

\* ------------------------------------------------------------ content blocks

\* A content block of a final message: [type, text].
Block(ty, tx) == [type |-> ty, text |-> tx]

\* content.find((b) => b.type === "text"): the first block of type "text",
\* or undefined.
\* A faulty find: content[0] is taken to be the text block.
FindTextBlockAtZero(content) ==
    IF content = <<>> THEN None ELSE Some(content[1])

FindTextBlock(content) ==
    LET hits == {i \in 1..Len(content) : content[i].type = "text"}
    IN  IF hits = {} THEN None
        ELSE Some(content[CHOOSE i \in hits : \A j \in hits : i <= j])

\* textBlock?.type === "text" ? textBlock.text : ""
TextOf(textBlock) ==
    IF textBlock.some /\ textBlock.val.type = "text" THEN textBlock.val.text ELSE <<>>

\* webAgent.ts:42-43, the value webAgent resolves with.
WebAgentText(content) == TextOf(FindTextBlock(content))

\* pdfAgent.ts:52-53, the value pdfAgent resolves with.
PdfAgentText(content) == TextOf(FindTextBlock(content))

\* orchestrator.ts:81-82, fullText.
SynthFullText(content) == TextOf(FindTextBlock(content))

\* A faulty split: only the second paragraph is taken as reasoning.
SplitReplySecondOnly(fullText, srcs) ==
    LET pieces == SplitDoubleNewline(fullText)
    IN  [decision |-> pieces[1],
         reasoning |-> IF Len(pieces) >= 2 THEN pieces[2] ELSE <<>>,
         sources |-> srcs]

\* A faulty join: the paragraphs of the reasoning are joined by one newline.
SplitReplyJoinNewline(fullText, srcs) ==
    LET pieces == SplitDoubleNewline(fullText)
    IN  [decision |-> pieces[1],
         reasoning |-> Join(Tail(pieces), <<Newline>>),
         sources |-> srcs]

\* orchestrator.ts:85-91: the CaseResult built from fullText and sources.
SplitReply(fullText, srcs) ==
    LET pieces == SplitDoubleNewline(fullText)
        firstParagraph == IF Len(pieces) >= 1 THEN Some(pieces[1]) ELSE None
        rest == Tail(pieces)
    IN  [decision |-> Coalesce(firstParagraph, fullText),
         reasoning |-> Join(rest, DoubleNewline),
         sources |-> srcs]

\* ------------------------------------------------------------------- inputs

Urls == {"u1", "u2"}
PdfPaths == {"p1", "p2"}
Query == "q"

SeqsUpTo(S, n) == UNION {[1..m -> S] : m \in 0..n}

\* An optional list: omitted, or a list of at most MaxSrc elements.
OptList(S) == {None} \cup {Some(l) : l \in SeqsUpTo(S, MaxSrc)}

CaseInputs ==
    [query : {Query}, urls : OptList(Urls), pdfPaths : OptList(PdfPaths)]

\* A value of process.env.ANTHROPIC_API_KEY once dotenv.config() has run
\* (index.ts:47): unset, empty, or a key.
EnvValues == {None, Some(""), Some("sk-key")}

\* What cheerio's body text / pdf-parse's data.text can be: empty, short,
\* with whitespace to normalize, and around the 150000 bound.
Bodies ==
    { <<>>,
      <<Run(" ", 2), Run("a", 3), Run("\n", 1), Run("\t", 2), Run("b", 1), Run(" ", 1)>>,
      <<Run("a", MaxContentChars - 1)>>,
      <<Run("a", MaxContentChars)>>,
      <<Run("a", MaxContentChars), Run("b", 1)>>,
      <<Run("\n", 1), Run("a", MaxContentChars - 2), Run(" ", 3), Run("b", MaxContentChars)>> }

Titles == {"title"}
Timestamp == "2026-01-01T00:00:00.000Z"
NumPagesValues == {1}

\* Final messages an agent's model call can resolve with.
AgentReplies ==
    { <<>>,
      <<Block("thinking", <<"T">>)>>,
      <<Block("text", <<>>)>>,
      <<Block("text", <<"A">>)>>,
      <<Block("thinking", <<"T">>), Block("tool_use", <<"T">>),
        Block("text", <<"A">>), Block("text", <<"B">>)>> }

\* Reply texts of the synthesis call.
SynthTexts ==
    { <<>>, <<"A">>,
      <<"A", Newline, "B">>,
      <<"A", Newline, Newline, "B">>,
      <<"A", Newline, Newline, "B", Newline, Newline, "C">>,
      <<"A", Newline, Newline, Newline, "B">>,
      <<Newline, Newline, "A">>,
      <<"A", Newline, Newline>> }

SynthReplies ==
    { <<>>, <<Block("thinking", <<"T">>)>> }
    \cup {<<Block("text", t)>> : t \in SynthTexts}
    \cup {<<Block("thinking", <<"A", Newline, Newline, "B">>), Block("text", t),
            Block("text", <<"B">>)>> : t \in SynthTexts}

\* Errors the environment raises.
NetworkErrors == {"NetworkError"}
FileErrors == {"FileNotFoundError"}
ParseErrors == {"ParseError"}
UpstreamErrors == {"UpstreamError"}

\* The orchestrate invocations of the process: index.ts makes one, "main";
\* orchestrate is exported (orchestrator.ts:27), so a caller that imports it
\* can make another, "second", while or after the first runs.
Invocations == {"main", "second"}

\* The cases of a caller that makes two invocations.
TwoCaseInputs ==
    [query : {Query},
     urls : {None, Some(<<"u1">>), Some(<<"u2">>)},
     pdfPaths : {None, Some(<<"p1">>)}]

\* -------------------------------------------------------------------- state

VARIABLES
    env,          \* process.env.ANTHROPIC_API_KEY
    config,       \* config.ts: the exported config, once the module is loaded
    procPc,       \* where the process is: boot, load_failed, loaded, awaiting, done, exited
    console,      \* what console.log / console.error have written
    exitCode,     \* the process' exit status, once it has one
    pc,           \* per invocation: where orchestrate is
    input,        \* per invocation: orchestrate's argument
    idx,          \* per invocation: position of the running for..of loop
    sources,      \* per invocation: orchestrate's sources
    contextParts, \* per invocation: orchestrate's contextParts
    page,         \* per invocation: the agent's page / parsed
    request,      \* per invocation: the parameters of the last messages.stream()
    result,       \* per invocation: the CaseResult orchestrate resolved with
    error,        \* per invocation: the error orchestrate rejected with
    inflight,     \* I/O operations issued and not settled
    trace,        \* per invocation: its calls and I/O operations, in the order issued
    arg,          \* SpecSplit, SpecNormalize, SpecReply: the value a function is applied to
    ret,          \* SpecSplit, SpecNormalize, SpecReply: what the code computes for it
    aguEnv,       \* process.env.AGU_EMAIL and process.env.AGU_SENHA
    script,       \* the browser script that is run
    scriptPc,     \* where the script is: idle, running, settled
    ip,           \* the operation of the script to do next
    loopI,        \* the script's loop counter i
    previousHeight, \* downloadTarefas (scroll): previousHeight
    taskCount,    \* downloadTarefas (API): tasks.length
    outputDir,    \* the downloads directory has been made
    browserSt,    \* the browser: none, open, closed
    contextSt,    \* the browser context: none, open, closed
    pageSt,       \* the page: none, open, crashed, closed
    ops,          \* the operations the script has issued, in order
    pending,      \* the error thrown in the try block, while the finally block runs
    outcome       \* what the script's promise settled with

procVars == <<env, config, procPc, console, exitCode>>
invVars == <<pc, input, idx, sources, contextParts, page, request, result, error>>
ioVars == <<inflight, trace>>
flowVars == <<procVars, invVars, ioVars>>
scriptVars == <<aguEnv, script, scriptPc, ip, loopI, previousHeight, taskCount, outputDir,
                browserSt, contextSt, pageSt, ops, pending, outcome>>
pureVars == <<arg, ret, scriptVars>>
vars == <<flowVars, pureVars>>

\* ------------------------------------------------------------------ helpers

Upd(f, k, v) == [f EXCEPT ![k] = v]

\* An I/O operation of invocation k.
Op(k, kind, src) == [inv |-> k, kind |-> kind, src |-> src]

\* An entry of the trace.
Ev(k, ev, a) == [inv |-> k, ev |-> ev, arg |-> a]

\* console.log(line) / console.error(line)
Log(line) == [stream |-> "log", line |-> line]
Err(line) == [stream |-> "error", line |-> line]

UrlsOf(k) == Coalesce(input[k].urls, <<>>)
PdfPathsOf(k) == Coalesce(input[k].pdfPaths, <<>>)

\* path.resolve(filePath)
PathResolve(filePath) == <<"/cwd/", filePath>>

\* An error thrown inside orchestrate, which catches nothing: the promise it
\* returned is rejected with that error, and the locals of the call are gone.
Reject(k, e) ==
    /\ pc' = Upd(pc, k, "rejected")
    /\ error' = Upd(error, k, Some(e))
    /\ idx' = Upd(idx, k, 0)
    /\ sources' = Upd(sources, k, <<>>)
    /\ contextParts' = Upd(contextParts, k, <<>>)
    /\ page' = Upd(page, k, None)
    /\ request' = Upd(request, k, None)
    /\ UNCHANGED <<input, result>>

\* ------------------------------------------------------------ config.ts, index.ts

\* A faulty guard: only an unset key is refused, an empty one is accepted.
LoadConfigUnsetOnly ==
    /\ procPc = "boot"
    /\ IF ~env.some
       THEN /\ procPc' = "load_failed"
            /\ exitCode' = Some(1)
            /\ console' = Append(console, Err(<<"ANTHROPIC_API_KEY is not set">>))
            /\ UNCHANGED config
       ELSE /\ procPc' = "loaded"
            /\ config' = Some([anthropicApiKey |-> env.val,
                               model |-> "claude-haiku-4-5"])
            /\ UNCHANGED <<exitCode, console>>
    /\ UNCHANGED <<env, invVars, ioVars, pureVars>>

\* config.ts: dotenv.config(); config = {anthropicApiKey: env ?? "", model};
\* if (!config.anthropicApiKey) throw.  The module is loaded by the first
\* import of index.ts (orchestrator.ts imports it before anything else runs),
\* so the throw ends the process before main is defined.
LoadConfig ==
    /\ procPc = "boot"
    /\ LET anthropicApiKey == Coalesce(env, "")
       IN  IF anthropicApiKey = ""
           THEN /\ procPc' = "load_failed"
                /\ exitCode' = Some(1)
                /\ console' = Append(console, Err(<<"ANTHROPIC_API_KEY is not set">>))
                /\ UNCHANGED config
           ELSE /\ procPc' = "loaded"
                /\ config' = Some([anthropicApiKey |-> anthropicApiKey,
                                   model |-> "claude-haiku-4-5"])
                /\ UNCHANGED <<exitCode, console>>
    /\ UNCHANGED <<env, invVars, ioVars, pureVars>>

\* orchestrator.ts:27-29: the call of orchestrate(input), up to the first loop.
OrchestrateEnter(k, caseInput) ==
    /\ pc[k] = "idle"
    /\ pc' = Upd(pc, k, "web_loop")
    /\ input' = Upd(input, k, caseInput)
    /\ idx' = Upd(idx, k, 1)
    /\ sources' = Upd(sources, k, <<>>)
    /\ contextParts' = Upd(contextParts, k, <<>>)
    /\ UNCHANGED <<page, request, result, error>>

\* What the other invocations are doing when invocation k is called.
CalledWhen(k) ==
    LET others == {pc[j] : j \in Invocations \ {k}}
    IN  IF others \subseteq {"idle"} THEN "first"
        ELSE IF others \subseteq {"idle", "returned"} THEN "after_return"
        ELSE IF others \subseteq {"idle", "returned", "rejected"} THEN "after_reject"
        ELSE "during"

\* A call orchestrate(caseInput) by a caller other than index.ts, made once
\* the module and its config have loaded.
CallOrchestrate(k) ==
    /\ procPc = "loaded"
    /\ \E caseInput \in TwoCaseInputs : OrchestrateEnter(k, caseInput)
    /\ trace' = Upd(trace, k, <<Ev(k, "orchestrate", CalledWhen(k))>>)
    /\ UNCHANGED <<procVars, inflight, pureVars>>

\* index.ts:8-24: main() up to await orchestrate(caseInput).  The sample case
\* of the source holds a query only (urls and pdfPaths omitted); README.md:66-74
\* has the user replace it, so the case is any CaseInput.
Main ==
    /\ procPc = "loaded"
    /\ \E caseInput \in CaseInputs :
        /\ OrchestrateEnter("main", caseInput)
        /\ console' = console \o
              << Log(<<"====">>), Log(<<"LuAI">>), Log(<<"====">>),
                 Log(<<"Consulta: ", caseInput.query>>), Log(<<"----">>) >>
    /\ procPc' = "awaiting"
    /\ UNCHANGED <<env, config, exitCode, ioVars, pureVars>>

\* The lines index.ts:26-37 print for a CaseResult.
ResultLines(r) ==
    << Log(<<"DECISAO:">>), Log(r.decision) >>
    \o (IF r.reasoning # <<>>
        THEN << Log(<<"FUNDAMENTACAO:">>), Log(r.reasoning) >> ELSE <<>>)
    \o (IF Len(r.sources) > 0
        THEN << Log(<<"FONTES CONSULTADAS:">>) >>
             \o [n \in 1..Len(r.sources) |-> Log(<<"  - ", r.sources[n]>>)]
        ELSE <<>>)

\* index.ts:24-37: main() after orchestrate resolved.
MainPrint ==
    /\ procPc = "awaiting"
    /\ pc["main"] = "returned"
    /\ console' = console \o ResultLines(result["main"].val)
    /\ procPc' = "done"
    /\ exitCode' = Some(0)
    /\ UNCHANGED <<env, config, invVars, ioVars, pureVars>>

\* A faulty handler: the error is logged and the process ends with status 0.
MainCatchExitZero ==
    /\ procPc = "awaiting"
    /\ pc["main"] = "rejected"
    /\ console' = Append(console, Err(<<"Erro fatal:", error["main"].val>>))
    /\ procPc' = "exited"
    /\ exitCode' = Some(0)
    /\ UNCHANGED <<env, config, invVars, ioVars, pureVars>>

\* index.ts:40-43: main().catch(...)
MainCatch ==
    /\ procPc = "awaiting"
    /\ pc["main"] = "rejected"
    /\ console' = Append(console, Err(<<"Erro fatal:", error["main"].val>>))
    /\ procPc' = "exited"
    /\ exitCode' = Some(1)
    /\ UNCHANGED <<env, config, invVars, ioVars, pureVars>>

\* ------------------------------------------------- orchestrator.ts: the URL loop

\* A faulty request: the page content is embedded without the slice.
WebAgentRequestNoSlice(pg, url, question) ==
    [model |-> config.val.model, max_tokens |-> AgentMaxTokens,
     system |-> "web", thinking |-> "none",
     content |-> [head |-> <<pg.title, url, pg.fetchedAt>>,
                  text |-> pg.content, question |-> question]]

\* The user turn webAgent builds (webAgent.ts:14-36).
WebAgentRequest(pg, url, question) ==
    LET safeContent == Slice(pg.content, MaxContentChars)
    IN  [model |-> config.val.model, max_tokens |-> AgentMaxTokens,
         system |-> "web", thinking |-> "none",
         content |-> [head |-> <<pg.title, url, pg.fetchedAt>>,
                      text |-> safeContent, question |-> question]]

\* A faulty loop: the fetches of all remaining URLs are issued at once.
StartWebAgentAll(k) ==
    /\ pc[k] = "web_loop"
    /\ idx[k] <= Len(UrlsOf(k))
    /\ LET url == UrlsOf(k)[idx[k]]
       IN  /\ console' = Append(console, Log(<<"[Orchestrator] Fetching: ", url>>))
           /\ trace' = Upd(trace, k, trace[k] \o <<Ev(k, "webAgent", url), Ev(k, "fetch", url)>>)
           /\ inflight' = inflight \cup
                {Op(k, "fetch", UrlsOf(k)[n]) : n \in idx[k]..Len(UrlsOf(k))}
    /\ pc' = Upd(pc, k, "await_fetch")
    /\ UNCHANGED <<input, idx, sources, contextParts, page, request, result, error>>
    /\ UNCHANGED <<env, config, procPc, exitCode, pureVars>>

\* A faulty loop: a URL that another invocation has already analysed is
\* skipped, as if a module-level set of seen URLs were kept.
StartWebAgentSeen(k) ==
    /\ pc[k] = "web_loop"
    /\ idx[k] <= Len(UrlsOf(k))
    /\ LET url == UrlsOf(k)[idx[k]]
       IN  IF \E j \in Invocations \ {k} :
                \E n \in 1..Len(trace[j]) : trace[j][n] = Ev(j, "webAgent_done", url)
           THEN /\ idx' = Upd(idx, k, idx[k] + 1)
                /\ UNCHANGED <<pc, console, trace, inflight>>
           ELSE /\ console' = Append(console, Log(<<"[Orchestrator] Fetching: ", url>>))
                /\ trace' = Upd(trace, k, trace[k] \o <<Ev(k, "webAgent", url), Ev(k, "fetch", url)>>)
                /\ inflight' = inflight \cup {Op(k, "fetch", url)}
                /\ pc' = Upd(pc, k, "await_fetch")
                /\ UNCHANGED idx
    /\ UNCHANGED <<input, sources, contextParts, page, request, result, error>>
    /\ UNCHANGED <<env, config, procPc, exitCode, pureVars>>

\* orchestrator.ts:32-34 and webAgent.ts:12, webScraper.ts: the next URL of
\* the loop; webAgent(url, query) is called and runs up to axios.get.
StartWebAgent(k) ==
    /\ pc[k] = "web_loop"
    /\ idx[k] <= Len(UrlsOf(k))
    /\ LET url == UrlsOf(k)[idx[k]]
       IN  /\ console' = Append(console, Log(<<"[Orchestrator] Fetching: ", url>>))
           /\ trace' = Upd(trace, k, trace[k] \o <<Ev(k, "webAgent", url), Ev(k, "fetch", url)>>)
           /\ inflight' = inflight \cup {Op(k, "fetch", url)}
    /\ pc' = Upd(pc, k, "await_fetch")
    /\ UNCHANGED <<input, idx, sources, contextParts, page, request, result, error>>
    /\ UNCHANGED <<env, config, procPc, exitCode, pureVars>>

\* webScraper.ts (README.md:140-162) and webAgent.ts:12-39: the GET resolved;
\* the page is built, truncated, and the model request is issued.
FetchDone(k) ==
    /\ pc[k] = "await_fetch"
    /\ LET url == UrlsOf(k)[idx[k]]
       IN  \E body \in Bodies, title \in Titles :
             LET pg == [url |-> url, title |-> title,
                        content |-> FetchWebPageContent(body),
                        fetchedAt |-> Timestamp]
             IN  /\ page' = Upd(page, k, Some(pg))
                 /\ request' = Upd(request, k,
                                   Some(WebAgentRequest(pg, url, input[k].query)))
                 /\ inflight' = (inflight \ {Op(k, "fetch", url)})
                                  \cup {Op(k, "model", url)}
                 /\ trace' = Upd(trace, k, Append(trace[k], Ev(k, "model_web", url)))
    /\ pc' = Upd(pc, k, "await_web_model")
    /\ UNCHANGED <<input, idx, sources, contextParts, result, error>>
    /\ UNCHANGED <<procVars, pureVars>>

\* A faulty failure path: the rejected axios.get is issued again.
FetchFailRetry(k) ==
    /\ pc[k] = "await_fetch"
    /\ trace' = Upd(trace, k, Append(trace[k], Ev(k, "fetch", UrlsOf(k)[idx[k]])))
    /\ UNCHANGED <<invVars, inflight>>
    /\ UNCHANGED <<procVars, pureVars>>

\* webScraper.ts: axios.get rejected (request error or timeout).
FetchFail(k) ==
    /\ pc[k] = "await_fetch"
    /\ \E e \in NetworkErrors :
        /\ Reject(k, e)
        /\ trace' = Upd(trace, k, Append(trace[k], Ev(k, "throw", e)))
    /\ inflight' = inflight \ {Op(k, "fetch", UrlsOf(k)[idx[k]])}
    /\ UNCHANGED <<procVars, pureVars>>

\* A faulty push: a source already in sources is not pushed again.
WebModelDoneDedup(k) ==
    /\ pc[k] = "await_web_model"
    /\ LET url == UrlsOf(k)[idx[k]]
       IN  /\ \E content \in AgentReplies :
                LET res == WebAgentText(content)
                IN  contextParts' = Upd(contextParts, k,
                        Append(contextParts[k],
                               <<"## Fonte web: ", url, Newline>> \o res))
           /\ sources' = Upd(sources, k,
                             IF \E n \in 1..Len(sources[k]) : sources[k][n] = url
                             THEN sources[k] ELSE Append(sources[k], url))
           /\ inflight' = inflight \ {Op(k, "model", url)}
           /\ trace' = Upd(trace, k, Append(trace[k], Ev(k, "webAgent_done", url)))
    /\ idx' = Upd(idx, k, idx[k] + 1)
    /\ page' = Upd(page, k, None)
    /\ request' = Upd(request, k, None)
    /\ pc' = Upd(pc, k, "web_loop")
    /\ UNCHANGED <<input, result, error>>
    /\ UNCHANGED <<procVars, pureVars>>

\* A faulty push: sources is one list shared by all running invocations, as
\* if it were declared at module level.
WebModelDoneShared(k) ==
    /\ pc[k] = "await_web_model"
    /\ LET url == UrlsOf(k)[idx[k]]
       IN  /\ \E content \in AgentReplies :
                LET res == WebAgentText(content)
                IN  contextParts' = Upd(contextParts, k,
                        Append(contextParts[k],
                               <<"## Fonte web: ", url, Newline>> \o res))
           /\ sources' = [j \in Invocations |->
                            IF j = k \/ pc[j] \notin {"idle", "returned", "rejected"}
                            THEN Append(sources[j], url) ELSE sources[j]]
           /\ inflight' = inflight \ {Op(k, "model", url)}
           /\ trace' = Upd(trace, k, Append(trace[k], Ev(k, "webAgent_done", url)))
    /\ idx' = Upd(idx, k, idx[k] + 1)
    /\ page' = Upd(page, k, None)
    /\ request' = Upd(request, k, None)
    /\ pc' = Upd(pc, k, "web_loop")
    /\ UNCHANGED <<input, result, error>>
    /\ UNCHANGED <<procVars, pureVars>>

\* webAgent.ts:40-43 and orchestrator.ts:34-37: the model replied; webAgent
\* resolves with the text, the block and the source are pushed.
WebModelDone(k) ==
    /\ pc[k] = "await_web_model"
    /\ LET url == UrlsOf(k)[idx[k]]
       IN  /\ \E content \in AgentReplies :
                LET res == WebAgentText(content)
                IN  contextParts' = Upd(contextParts, k,
                        Append(contextParts[k],
                               <<"## Fonte web: ", url, Newline>> \o res))
           /\ sources' = Upd(sources, k, Append(sources[k], url))
           /\ inflight' = inflight \ {Op(k, "model", url)}
           /\ trace' = Upd(trace, k, Append(trace[k], Ev(k, "webAgent_done", url)))
    /\ idx' = Upd(idx, k, idx[k] + 1)
    /\ page' = Upd(page, k, None)
    /\ request' = Upd(request, k, None)
    /\ pc' = Upd(pc, k, "web_loop")
    /\ UNCHANGED <<input, result, error>>
    /\ UNCHANGED <<procVars, pureVars>>

\* webAgent.ts:40: stream.finalMessage() rejected.
WebModelFail(k) ==
    /\ pc[k] = "await_web_model"
    /\ \E e \in UpstreamErrors :
        /\ Reject(k, e)
        /\ trace' = Upd(trace, k, Append(trace[k], Ev(k, "throw", e)))
    /\ inflight' = inflight \ {Op(k, "model", UrlsOf(k)[idx[k]])}
    /\ UNCHANGED <<procVars, pureVars>>

\* orchestrator.ts:32, 40: the URL loop is over, the PDF loop begins.
WebLoopEnd(k) ==
    /\ pc[k] = "web_loop"
    /\ idx[k] > Len(UrlsOf(k))
    /\ pc' = Upd(pc, k, "pdf_loop")
    /\ idx' = Upd(idx, k, 1)
    /\ UNCHANGED <<input, sources, contextParts, page, request, result, error>>
    /\ UNCHANGED <<procVars, ioVars, pureVars>>

\* ------------------------------------------------- orchestrator.ts: the PDF loop

\* The user turn pdfAgent builds (pdfAgent.ts:21-48).
PdfAgentRequest(parsed, question) ==
    LET safeText == Slice(parsed.text, MaxContentChars)
    IN  [model |-> config.val.model, max_tokens |-> AgentMaxTokens,
         system |-> "pdf", thinking |-> "adaptive",
         content |-> [head |-> <<parsed.filePath, parsed.numPages, parsed.parsedAt>>,
                      text |-> safeText, question |-> question]]

\* orchestrator.ts:40-42, pdfAgent.ts:16-19, pdfParser.ts parsePdfFile: the
\* next path of the loop; pdfAgent(pdfPath, query) is called with a string, so
\* parsePdfFile runs: the file is read (synchronously) and pdfParse(buffer) is
\* issued.
StartPdfAgent(k) ==
    /\ pc[k] = "pdf_loop"
    /\ idx[k] <= Len(PdfPathsOf(k))
    /\ LET pdfPath == PdfPathsOf(k)[idx[k]]
       IN  /\ console' = Append(console, Log(<<"[Orchestrator] Parsing PDF: ", pdfPath>>))
           /\ trace' = Upd(trace, k, trace[k] \o <<Ev(k, "pdfAgent", pdfPath), Ev(k, "readFile", pdfPath),
                                  Ev(k, "parse", pdfPath)>>)
           /\ inflight' = inflight \cup {Op(k, "parse", pdfPath)}
    /\ pc' = Upd(pc, k, "await_parse")
    /\ UNCHANGED <<input, idx, sources, contextParts, page, request, result, error>>
    /\ UNCHANGED <<env, config, procPc, exitCode, pureVars>>

\* The same call when fs.readFileSync throws (the path does not resolve).
ReadFileFail(k) ==
    /\ pc[k] = "pdf_loop"
    /\ idx[k] <= Len(PdfPathsOf(k))
    /\ LET pdfPath == PdfPathsOf(k)[idx[k]]
       IN  /\ console' = Append(console, Log(<<"[Orchestrator] Parsing PDF: ", pdfPath>>))
           /\ \E e \in FileErrors :
                /\ Reject(k, e)
                /\ trace' = Upd(trace, k, trace[k] \o <<Ev(k, "pdfAgent", pdfPath),
                                       Ev(k, "readFile", pdfPath), Ev(k, "throw", e)>>)
    /\ UNCHANGED <<env, config, procPc, exitCode, inflight, pureVars>>

\* pdfParser.ts parsePdfFile (README.md:100-111) and pdfAgent.ts:21-48:
\* pdfParse resolved; the text is normalized, truncated, and the model request
\* is issued.
ParseDone(k) ==
    /\ pc[k] = "await_parse"
    /\ LET pdfPath == PdfPathsOf(k)[idx[k]]
       IN  \E dataText \in Bodies, numpages \in NumPagesValues :
             LET parsed == [filePath |-> PathResolve(pdfPath),
                            text |-> ParsePdfFileText(dataText),
                            numPages |-> numpages,
                            parsedAt |-> Timestamp]
             IN  /\ page' = Upd(page, k, Some(parsed))
                 /\ request' = Upd(request, k,
                                   Some(PdfAgentRequest(parsed, input[k].query)))
                 /\ inflight' = (inflight \ {Op(k, "parse", pdfPath)})
                                  \cup {Op(k, "model", pdfPath)}
                 /\ trace' = Upd(trace, k, Append(trace[k], Ev(k, "model_pdf", pdfPath)))
    /\ pc' = Upd(pc, k, "await_pdf_model")
    /\ UNCHANGED <<input, idx, sources, contextParts, result, error>>
    /\ UNCHANGED <<procVars, pureVars>>

\* A faulty recovery: a PDF that does not parse is skipped and the loop goes on.
ParseFailSkip(k) ==
    /\ pc[k] = "await_parse"
    /\ \E e \in ParseErrors :
        trace' = Upd(trace, k, Append(trace[k], Ev(k, "throw", e)))
    /\ inflight' = inflight \ {Op(k, "parse", PdfPathsOf(k)[idx[k]])}
    /\ idx' = Upd(idx, k, idx[k] + 1)
    /\ pc' = Upd(pc, k, "pdf_loop")
    /\ UNCHANGED <<input, sources, contextParts, page, request, result, error>>
    /\ UNCHANGED <<procVars, pureVars>>

\* pdfParser.ts: pdfParse(buffer) rejected (not a valid PDF).
ParseFail(k) ==
    /\ pc[k] = "await_parse"
    /\ \E e \in ParseErrors :
        /\ Reject(k, e)
        /\ trace' = Upd(trace, k, Append(trace[k], Ev(k, "throw", e)))
    /\ inflight' = inflight \ {Op(k, "parse", PdfPathsOf(k)[idx[k]])}
    /\ UNCHANGED <<procVars, pureVars>>

\* A faulty push: the block is pushed but the source is not.
PdfModelDoneNoSource(k) ==
    /\ pc[k] = "await_pdf_model"
    /\ LET pdfPath == PdfPathsOf(k)[idx[k]]
       IN  /\ \E content \in AgentReplies :
                LET res == PdfAgentText(content)
                IN  contextParts' = Upd(contextParts, k,
                        Append(contextParts[k],
                               <<"## Documento PDF: ", pdfPath, Newline>> \o res))
           /\ inflight' = inflight \ {Op(k, "model", pdfPath)}
           /\ trace' = Upd(trace, k, Append(trace[k], Ev(k, "pdfAgent_done", pdfPath)))
    /\ idx' = Upd(idx, k, idx[k] + 1)
    /\ page' = Upd(page, k, None)
    /\ request' = Upd(request, k, None)
    /\ pc' = Upd(pc, k, "pdf_loop")
    /\ UNCHANGED <<input, sources, result, error>>
    /\ UNCHANGED <<procVars, pureVars>>

\* pdfAgent.ts:50-53 and orchestrator.ts:42-45: the model replied; pdfAgent
\* resolves with the text, the block and the source are pushed.
PdfModelDone(k) ==
    /\ pc[k] = "await_pdf_model"
    /\ LET pdfPath == PdfPathsOf(k)[idx[k]]
       IN  /\ \E content \in AgentReplies :
                LET res == PdfAgentText(content)
                IN  contextParts' = Upd(contextParts, k,
                        Append(contextParts[k],
                               <<"## Documento PDF: ", pdfPath, Newline>> \o res))
           /\ sources' = Upd(sources, k, Append(sources[k], pdfPath))
           /\ inflight' = inflight \ {Op(k, "model", pdfPath)}
           /\ trace' = Upd(trace, k, Append(trace[k], Ev(k, "pdfAgent_done", pdfPath)))
    /\ idx' = Upd(idx, k, idx[k] + 1)
    /\ page' = Upd(page, k, None)
    /\ request' = Upd(request, k, None)
    /\ pc' = Upd(pc, k, "pdf_loop")
    /\ UNCHANGED <<input, result, error>>
    /\ UNCHANGED <<procVars, pureVars>>

\* pdfAgent.ts:50: stream.finalMessage() rejected.
PdfModelFail(k) ==
    /\ pc[k] = "await_pdf_model"
    /\ \E e \in UpstreamErrors :
        /\ Reject(k, e)
        /\ trace' = Upd(trace, k, Append(trace[k], Ev(k, "throw", e)))
    /\ inflight' = inflight \ {Op(k, "model", PdfPathsOf(k)[idx[k]])}
    /\ UNCHANGED <<procVars, pureVars>>

\* ------------------------------------------------ orchestrator.ts: synthesis

ContextSeparator == <<"\n\n---\n\n">>

\* A faulty test: the context is left out when every agent answer is empty.
SynthRequestIfAnswers(parts, query) ==
    LET context == Join(parts, ContextSeparator)
    IN  [model |-> config.val.model, max_tokens |-> SynthMaxTokens,
         system |-> "decision", thinking |-> "none",
         content |->
            IF \E n \in 1..Len(parts) : Len(parts[n]) > 3
            THEN <<"Caso / Consulta:\n", query,
                   "\n\n---\n\nInformacoes coletadas pelos agentes:\n">> \o context
            ELSE <<"Caso / Consulta:\n", query>>]

\* orchestrator.ts:47-78: the parameters of the synthesis request.
SynthRequest(parts, query) ==
    LET context == Join(parts, ContextSeparator)
    IN  [model |-> config.val.model, max_tokens |-> SynthMaxTokens,
         system |-> "decision", thinking |-> "none",
         content |->
            IF context # <<>>
            THEN <<"Caso / Consulta:\n", query,
                   "\n\n---\n\nInformacoes coletadas pelos agentes:\n">> \o context
            ELSE <<"Caso / Consulta:\n", query>>]

\* A faulty loop exit: the synthesis request is issued as soon as the PDF
\* loop is reached.
SynthesizeEarly(k) ==
    /\ pc[k] = "pdf_loop"
    /\ request' = Upd(request, k, Some(SynthRequest(contextParts[k], input[k].query)))
    /\ inflight' = inflight \cup {Op(k, "model", "synthesis")}
    /\ trace' = Upd(trace, k, Append(trace[k], Ev(k, "model_synthesis", "synthesis")))
    /\ pc' = Upd(pc, k, "await_synth")
    /\ UNCHANGED <<input, idx, sources, contextParts, page, result, error>>
    /\ UNCHANGED <<procVars, pureVars>>

\* A faulty shortcut: with nothing collected, orchestrate returns without a
\* model call.
SynthesizeUnlessEmpty(k) ==
    /\ pc[k] = "pdf_loop"
    /\ idx[k] > Len(PdfPathsOf(k))
    /\ IF contextParts[k] = <<>>
       THEN /\ result' = Upd(result, k, Some(SplitReply(<<>>, sources[k])))
            /\ pc' = Upd(pc, k, "returned")
            /\ trace' = Upd(trace, k, Append(trace[k], Ev(k, "return", "synthesis")))
            /\ UNCHANGED <<request, inflight>>
       ELSE /\ request' = Upd(request, k, Some(SynthRequest(contextParts[k], input[k].query)))
            /\ inflight' = inflight \cup {Op(k, "model", "synthesis")}
            /\ trace' = Upd(trace, k, Append(trace[k], Ev(k, "model_synthesis", "synthesis")))
            /\ pc' = Upd(pc, k, "await_synth")
            /\ UNCHANGED result
    /\ UNCHANGED <<input, idx, sources, contextParts, page, error>>
    /\ UNCHANGED <<procVars, pureVars>>

\* orchestrator.ts:40, 47-78: the PDF loop is over; the context is joined and
\* the synthesis request is issued.
Synthesize(k) ==
    /\ pc[k] = "pdf_loop"
    /\ idx[k] > Len(PdfPathsOf(k))
    /\ request' = Upd(request, k, Some(SynthRequest(contextParts[k], input[k].query)))
    /\ inflight' = inflight \cup {Op(k, "model", "synthesis")}
    /\ trace' = Upd(trace, k, Append(trace[k], Ev(k, "model_synthesis", "synthesis")))
    /\ pc' = Upd(pc, k, "await_synth")
    /\ UNCHANGED <<input, idx, sources, contextParts, page, result, error>>
    /\ UNCHANGED <<procVars, pureVars>>

\* orchestrator.ts:80-91: the synthesis reply arrived; orchestrate resolves
\* with the CaseResult.
SynthDone(k) ==
    /\ pc[k] = "await_synth"
    /\ \E content \in SynthReplies :
        result' = Upd(result, k, Some(SplitReply(SynthFullText(content), sources[k])))
    /\ inflight' = inflight \ {Op(k, "model", "synthesis")}
    /\ trace' = Upd(trace, k, Append(trace[k], Ev(k, "return", "synthesis")))
    /\ pc' = Upd(pc, k, "returned")
    /\ idx' = Upd(idx, k, 0)
    /\ sources' = Upd(sources, k, <<>>)
    /\ contextParts' = Upd(contextParts, k, <<>>)
    /\ page' = Upd(page, k, None)
    /\ request' = Upd(request, k, None)
    /\ UNCHANGED <<input, error>>
    /\ UNCHANGED <<procVars, pureVars>>

\* orchestrator.ts:80: stream.finalMessage() rejected.
SynthFail(k) ==
    /\ pc[k] = "await_synth"
    /\ \E e \in UpstreamErrors :
        /\ Reject(k, e)
        /\ trace' = Upd(trace, k, Append(trace[k], Ev(k, "throw", e)))
    /\ inflight' = inflight \ {Op(k, "model", "synthesis")}
    /\ UNCHANGED <<procVars, pureVars>>

\* ----------------------------------------------------- the browser scripts
\* previewTarefas (downloadAgent.ts) and the two downloadTarefas (the one that
\* scrolls the task page, and the one that reads the task list from the API)
\* are straight-line Playwright scripts.  Each is written down as its list of
\* operations in source order; `ip` is the operation the script is at.  A
\* page operation rejects when the page has crashed or its window has been
\* closed, and may time out while the page is there; waitForTimeout only
\* rejects when the page is gone.  close() resolves whatever the state of
\* its target.

Scripts == {"previewTarefas", "downloadTarefas_scroll", "downloadTarefas_api"}

\* process.env.AGU_EMAIL and process.env.AGU_SENHA once dotenv.config() has
\* run: unset, empty, or a value.
AguEnvs == [email : {None, Some(""), Some("user")},
            senha : {None, Some(""), Some("secret")}]

\* What document.body.scrollHeight can be.
Heights == 0..MaxHeight

Ins(kind, op) == [kind |-> kind, op |-> op, to |-> 0]
Jump(kind, op, to) == [kind |-> kind, op |-> op, to |-> to]

\* chromium.launch, browser.newContext, context.newPage: the same three lines
\* open each script.
Prologue ==
    << Ins("launch", "launch"), Ins("new_context", "newContext"),
       Ins("new_page", "newPage") >>

\* downloadAgent.ts:52-142: the try block of previewTarefas.
PreviewTry ==
    << Ins("page", "goto"), Ins("page", "screenshot"),
       Ins("page", "waitFor"), Ins("page", "click"),
       Ins("page", "waitFor"), Ins("page", "screenshot"),
       Ins("page", "click"), Ins("page", "press"),
       Ins("page", "pressSequentially"), Ins("page", "press"),
       Ins("page", "click"), Ins("page", "press"),
       Ins("page", "pressSequentially"), Ins("page", "press"),
       Ins("page", "screenshot"), Ins("page", "evaluate"),
       Ins("page", "press_or_click"),
       Ins("page", "waitForURL"), Ins("page", "waitForLoadState"),
       Ins("page", "screenshot"), Ins("nothrow", "openFile") >>

\* downloadAgent.ts:143-148: the finally block of previewTarefas.
PreviewFinally ==
    << Ins("wait", "waitForTimeout"), Ins("close_context", "context.close"),
       Ins("close_browser", "browser.close") >>

\* part_001:57-166: the try block of the downloadTarefas that scrolls.  The
\* for loop of lines 103-111 is operations 13 to 17 of the script.
ScrollTry ==
    << Ins("page", "goto"), Ins("page", "waitFor"), Ins("page", "click"),
       Ins("page", "waitForSelector"), Ins("page", "fill"), Ins("page", "fill"),
       Ins("page", "click"), Ins("page", "waitForURL"),
       Ins("page", "waitForLoadState"),
       Jump("scroll_head", "i < 30", 18),
       Jump("height", "evaluate", 18),
       Ins("page", "evaluate"),
       Ins("wait", "waitForTimeout"),
       Jump("loop_back", "i++", 13),
       Ins("page", "evaluate"), Ins("page", "screenshot"),
       Ins("fs", "writeFileSync") >>

\* part_001:167-170: the finally block of the downloadTarefas that scrolls.
ScrollFinally ==
    << Ins("close_context", "context.close"), Ins("close_browser", "browser.close") >>

\* part_002:66-219: the downloadTarefas that reads the API, which has no try
\* block.  The for loop of lines 154-191 is operations 21 to 28 of the script.
ApiBody ==
    << Ins("page", "goto"), Ins("page", "waitFor"), Ins("page", "click"),
       Ins("page", "waitFor"),
       Ins("page", "click"), Ins("page", "press"),
       Ins("page", "pressSequentially"), Ins("page", "press"),
       Ins("page", "click"), Ins("page", "press"),
       Ins("page", "pressSequentially"), Ins("page", "press"),
       Ins("page", "evaluate"), Ins("page", "press_or_click"),
       Ins("page", "waitForURL"), Ins("page", "waitForLoadState"),
       Ins("tasks", "evaluate"),
       Jump("tasks_head", "i < tasks.length", 29),
       Ins("page", "goto"), Ins("caught", "waitFor"),
       Ins("page", "evaluate"), Ins("page", "screenshot"),
       Ins("page", "title"), Ins("fs", "writeFileSync"),
       Jump("loop_back", "i++", 21),
       Ins("fs", "writeFileSync"),
       Ins("wait", "waitForTimeout"), Ins("close_context", "context.close"),
       Ins("close_browser", "browser.close") >>

TryBlock(f) ==
    CASE f = "previewTarefas" -> PreviewTry
      [] f = "downloadTarefas_scroll" -> ScrollTry
      [] OTHER -> <<>>

FinallyBlock(f) ==
    CASE f = "previewTarefas" -> PreviewFinally
      [] f = "downloadTarefas_scroll" -> ScrollFinally
      [] OTHER -> <<>>

Program(f) ==
    Prologue \o TryBlock(f) \o FinallyBlock(f)
    \o (IF f = "downloadTarefas_api" THEN ApiBody ELSE <<>>)

\* Operation i of script f is inside its try block.
InTry(f, i) == i > Len(Prologue) /\ i <= Len(Prologue) + Len(TryBlock(f))

\* The first operation of the finally block of script f.
FinallyFrom(f) == Len(Prologue) + Len(TryBlock(f)) + 1

\* A faulty guard: only an unset variable counts as missing.
CredentialsUnset(e) == ~e.email.some \/ ~e.senha.some

\* !email || !senha (downloadAgent.ts:26, part_001:38, part_002:48).
CredentialsMissing(e) ==
    \/ ~e.email.some \/ e.email.val = ""
    \/ ~e.senha.some \/ e.senha.val = ""

Resolved(v) == Some([ok |-> TRUE, val |-> v])
Rejected(e) == Some([ok |-> FALSE, val |-> e])

\* The script is at an operation of this kind.
At(kinds) ==
    /\ scriptPc = "running"
    /\ ip <= Len(Program(script))
    /\ Program(script)[ip].kind \in kinds

\* The operation the script is at is issued.
Issue == ops' = Append(ops, Program(script)[ip].op)

\* The operation the script is at throws e: inside a try block control goes
\* to the finally block with e pending, elsewhere the script rejects with e.
ScriptThrow(e) ==
    IF InTry(script, ip)
    THEN /\ pending' = Some(e)
         /\ ip' = FinallyFrom(script)
         /\ UNCHANGED <<scriptPc, outcome>>
    ELSE /\ outcome' = Rejected(e)
         /\ scriptPc' = "settled"
         /\ UNCHANGED <<pending, ip>>

\* Lines 23-30 of each script: the credentials are read and tested, the
\* output directory is made.
ScriptCall(f) ==
    /\ scriptPc = "idle"
    /\ script' = f
    /\ IF CredentialsMissing(aguEnv)
       THEN /\ outcome' = Rejected("CredentialError")
            /\ scriptPc' = "settled"
            /\ UNCHANGED <<ip, outputDir, ops>>
       ELSE /\ ops' = <<"mkdirSync">>
            /\ \/ /\ outputDir' = TRUE
                  /\ scriptPc' = "running"
                  /\ ip' = 1
                  /\ UNCHANGED outcome
               \/ /\ outcome' = Rejected("FsError")
                  /\ scriptPc' = "settled"
                  /\ UNCHANGED <<ip, outputDir>>
    /\ UNCHANGED <<aguEnv, loopI, previousHeight, taskCount, browserSt, contextSt,
                   pageSt, pending>>
    /\ UNCHANGED <<flowVars, arg, ret>>

\* chromium.launch resolved.
LaunchDone ==
    /\ At({"launch"})
    /\ Issue
    /\ browserSt' = "open"
    /\ ip' = ip + 1
    /\ UNCHANGED <<aguEnv, script, scriptPc, loopI, previousHeight, taskCount, outputDir,
                   contextSt, pageSt, pending, outcome>>
    /\ UNCHANGED <<flowVars, arg, ret>>

\* browser.newContext resolved.
NewContextDone ==
    /\ At({"new_context"})
    /\ Issue
    /\ contextSt' = "open"
    /\ ip' = ip + 1
    /\ UNCHANGED <<aguEnv, script, scriptPc, loopI, previousHeight, taskCount, outputDir,
                   browserSt, pageSt, pending, outcome>>
    /\ UNCHANGED <<flowVars, arg, ret>>

\* context.newPage resolved.
NewPageDone ==
    /\ At({"new_page"})
    /\ Issue
    /\ pageSt' = "open"
    /\ ip' = ip + 1
    /\ UNCHANGED <<aguEnv, script, scriptPc, loopI, previousHeight, taskCount, outputDir,
                   browserSt, contextSt, pending, outcome>>
    /\ UNCHANGED <<flowVars, arg, ret>>

\* chromium.launch, browser.newContext or context.newPage rejected; they are
\* before the try block.
SetupFail ==
    /\ At({"launch", "new_context", "new_page"})
    /\ Issue
    /\ ScriptThrow("LaunchError")
    /\ UNCHANGED <<aguEnv, script, loopI, previousHeight, taskCount, outputDir,
                   browserSt, contextSt, pageSt>>
    /\ UNCHANGED <<flowVars, arg, ret>>

\* The page crashes, or its window is closed by the user (the browser is
\* launched with headless: false).
PageCrash ==
    /\ scriptPc = "running"
    /\ pageSt = "open"
    /\ pageSt' = "crashed"
    /\ UNCHANGED <<aguEnv, script, scriptPc, ip, loopI, previousHeight, taskCount,
                   outputDir, browserSt, contextSt, ops, pending, outcome>>
    /\ UNCHANGED <<flowVars, arg, ret>>

\* An awaited operation on the page resolved.
PageOpDone ==
    /\ At({"page", "wait"})
    /\ pageSt = "open"
    /\ Issue
    /\ ip' = ip + 1
    /\ UNCHANGED <<aguEnv, script, scriptPc, loopI, previousHeight, taskCount, outputDir,
                   browserSt, contextSt, pageSt, pending, outcome>>
    /\ UNCHANGED <<flowVars, arg, ret>>

\* An awaited operation on the page rejected: the page is gone, or the
\* operation timed out.
PageOpFail ==
    /\ At({"page", "wait", "height", "tasks"})
    /\ Issue
    /\ \/ /\ pageSt = "crashed"
          /\ ScriptThrow("TargetClosedError")
       \/ /\ pageSt = "open"
          /\ Program(script)[ip].kind # "wait"
          /\ ScriptThrow("TimeoutError")
    /\ UNCHANGED <<aguEnv, script, loopI, previousHeight, taskCount, outputDir,
                   browserSt, contextSt, pageSt>>
    /\ UNCHANGED <<flowVars, arg, ret>>

\* part_002:164-165: waitFor(...).catch(...) settles either way.
CaughtOpDone ==
    /\ At({"caught"})
    /\ Issue
    /\ ip' = ip + 1
    /\ UNCHANGED <<aguEnv, script, scriptPc, loopI, previousHeight, taskCount, outputDir,
                   browserSt, contextSt, pageSt, pending, outcome>>
    /\ UNCHANGED <<flowVars, arg, ret>>

\* fs.writeFileSync returned; downloadAgent.ts:140: openFile, which catches
\* what execSync throws.
SyncOpDone ==
    /\ At({"fs", "nothrow"})
    /\ Issue
    /\ ip' = ip + 1
    /\ UNCHANGED <<aguEnv, script, scriptPc, loopI, previousHeight, taskCount, outputDir,
                   browserSt, contextSt, pageSt, pending, outcome>>
    /\ UNCHANGED <<flowVars, arg, ret>>

\* fs.writeFileSync threw.
FsOpFail ==
    /\ At({"fs"})
    /\ Issue
    /\ ScriptThrow("FsError")
    /\ UNCHANGED <<aguEnv, script, loopI, previousHeight, taskCount, outputDir,
                   browserSt, contextSt, pageSt>>
    /\ UNCHANGED <<flowVars, arg, ret>>

\* part_001:103: for (let i = 0; i < 30; i++), the test.
ScrollHead ==
    /\ At({"scroll_head"})
    /\ ip' = IF loopI < MaxScrolls THEN ip + 1 ELSE Program(script)[ip].to
    /\ UNCHANGED <<aguEnv, script, scriptPc, loopI, previousHeight, taskCount, outputDir,
                   browserSt, contextSt, pageSt, ops, pending, outcome>>
    /\ UNCHANGED <<flowVars, arg, ret>>

\* part_001:104-107: the height of the page is read; the loop is left when
\* it has not changed.
HeightOp ==
    /\ At({"height"})
    /\ pageSt = "open"
    /\ Issue
    /\ \E currentHeight \in Heights :
        IF currentHeight = previousHeight
        THEN /\ ip' = Program(script)[ip].to
             /\ UNCHANGED previousHeight
        ELSE /\ ip' = ip + 1
             /\ previousHeight' = currentHeight
    /\ UNCHANGED <<aguEnv, script, scriptPc, loopI, taskCount, outputDir,
                   browserSt, contextSt, pageSt, pending, outcome>>
    /\ UNCHANGED <<flowVars, arg, ret>>

\* part_002:108-147: the task list is read from the API.
TasksOp ==
    /\ At({"tasks"})
    /\ pageSt = "open"
    /\ Issue
    /\ taskCount' \in 0..MaxTasks
    /\ ip' = ip + 1
    /\ UNCHANGED <<aguEnv, script, scriptPc, loopI, previousHeight, outputDir,
                   browserSt, contextSt, pageSt, pending, outcome>>
    /\ UNCHANGED <<flowVars, arg, ret>>

\* part_002:154: for (let i = 0; i < tasks.length; i++), the test.
TasksHead ==
    /\ At({"tasks_head"})
    /\ ip' = IF loopI < taskCount THEN ip + 1 ELSE Program(script)[ip].to
    /\ UNCHANGED <<aguEnv, script, scriptPc, loopI, previousHeight, taskCount, outputDir,
                   browserSt, contextSt, pageSt, ops, pending, outcome>>
    /\ UNCHANGED <<flowVars, arg, ret>>

\* i++ and back to the test of the loop.
LoopBack ==
    /\ At({"loop_back"})
    /\ loopI' = loopI + 1
    /\ ip' = Program(script)[ip].to
    /\ UNCHANGED <<aguEnv, script, scriptPc, previousHeight, taskCount, outputDir,
                   browserSt, contextSt, pageSt, ops, pending, outcome>>
    /\ UNCHANGED <<flowVars, arg, ret>>

\* await context.close()
CloseContext ==
    /\ At({"close_context"})
    /\ Issue
    /\ contextSt' = "closed"
    /\ pageSt' = "closed"
    /\ ip' = ip + 1
    /\ UNCHANGED <<aguEnv, script, scriptPc, loopI, previousHeight, taskCount, outputDir,
                   browserSt, pending, outcome>>
    /\ UNCHANGED <<flowVars, arg, ret>>

\* await browser.close()
CloseBrowser ==
    /\ At({"close_browser"})
    /\ Issue
    /\ browserSt' = "closed"
    /\ ip' = ip + 1
    /\ UNCHANGED <<aguEnv, script, scriptPc, loopI, previousHeight, taskCount, outputDir,
                   contextSt, pageSt, pending, outcome>>
    /\ UNCHANGED <<flowVars, arg, ret>>

\* The end of the function: it rejects with the error pending since the try
\* block, or resolves with its value.
ScriptSettle ==
    /\ scriptPc = "running"
    /\ ip > Len(Program(script))
    /\ outcome' = IF pending.some THEN Rejected(pending.val) ELSE Resolved("value")
    /\ scriptPc' = "settled"
    /\ UNCHANGED <<aguEnv, script, ip, loopI, previousHeight, taskCount, outputDir,
                   browserSt, contextSt, pageSt, ops, pending>>
    /\ UNCHANGED <<flowVars, arg, ret>>

ScriptLocalsIdle ==
    /\ script = "none"
    /\ scriptPc = "idle"
    /\ ip = 0
    /\ loopI = 0
    /\ previousHeight = 0
    /\ taskCount = 0
    /\ outputDir = FALSE
    /\ browserSt = "none"
    /\ contextSt = "none"
    /\ pageSt = "none"
    /\ ops = <<>>
    /\ pending = None
    /\ outcome = None

\* No script is run.
ScriptIdle ==
    /\ aguEnv = [email |-> None, senha |-> None]
    /\ ScriptLocalsIdle

\* ------------------------------------------------------------ specification

FlowIdle ==
    /\ config = None
    /\ procPc = "boot"
    /\ console = <<>>
    /\ exitCode = None
    /\ pc = [k \in Invocations |-> "idle"]
    /\ input = [k \in Invocations |-> [query |-> Query, urls |-> None, pdfPaths |-> None]]
    /\ idx = [k \in Invocations |-> 0]
    /\ sources = [k \in Invocations |-> <<>>]
    /\ contextParts = [k \in Invocations |-> <<>>]
    /\ page = [k \in Invocations |-> None]
    /\ request = [k \in Invocations |-> None]
    /\ result = [k \in Invocations |-> None]
    /\ error = [k \in Invocations |-> None]
    /\ inflight = {}
    /\ trace = [k \in Invocations |-> <<>>]

Init ==
    /\ env \in EnvValues
    /\ FlowIdle
    /\ arg = <<>>
    /\ ret = None
    /\ ScriptIdle

Step(k) ==
    \/ StartWebAgent(k)
    \/ FetchDone(k)
    \/ FetchFail(k)
    \/ WebModelDone(k)
    \/ WebModelFail(k)
    \/ WebLoopEnd(k)
    \/ StartPdfAgent(k)
    \/ ReadFileFail(k)
    \/ ParseDone(k)
    \/ ParseFail(k)
    \/ PdfModelDone(k)
    \/ PdfModelFail(k)
    \/ Synthesize(k)
    \/ SynthDone(k)
    \/ SynthFail(k)

Next ==
    \/ LoadConfig
    \/ Main
    \/ MainPrint
    \/ MainCatch
    \/ \E k \in Invocations : Step(k)

Spec == Init /\ [][Next]_vars

\* Two invocations of orchestrate in one process, each called at any moment
\* after the config has loaded: one after the other, or interleaved at their
\* awaits.
NextTwo ==
    \/ LoadConfig
    \/ \E k \in Invocations : CallOrchestrate(k)
    \/ \E k \in Invocations : Step(k)

SpecTwo == Init /\ [][NextTwo]_vars

\* One run of one browser script, with any values of the two credentials.
InitScripts ==
    /\ env = None
    /\ FlowIdle
    /\ arg = <<>>
    /\ ret = None
    /\ aguEnv \in AguEnvs
    /\ ScriptLocalsIdle

NextScripts ==
    \/ \E f \in Scripts : ScriptCall(f)
    \/ LaunchDone
    \/ NewContextDone
    \/ NewPageDone
    \/ SetupFail
    \/ PageCrash
    \/ PageOpDone
    \/ PageOpFail
    \/ CaughtOpDone
    \/ SyncOpDone
    \/ FsOpFail
    \/ ScrollHead
    \/ HeightOp
    \/ TasksOp
    \/ TasksHead
    \/ LoopBack
    \/ CloseContext
    \/ CloseBrowser
    \/ ScriptSettle

SpecScripts == InitScripts /\ [][NextScripts]_vars

\* ------------------------------------------- the text functions on their own
\* Each of these specifications draws an argument at Init and applies to it
\* the code of one function, at each place the code has it.

\* Every sequence over S of length at most n.
Chars == {"A", "B", Newline}
ReplyTexts == SeqsUpTo(Chars, MaxLen)

\* orchestrator.ts:85-91 applied to the reply text arg.
ApplySplit ==
    /\ ret = None
    /\ ret' = Some(SplitReply(arg, <<>>))
    /\ UNCHANGED <<arg, flowVars, scriptVars>>

InitSplit ==
    /\ env = None
    /\ FlowIdle
    /\ arg \in ReplyTexts
    /\ ret = None
    /\ ScriptIdle

SpecSplit == InitSplit /\ [][ApplySplit]_vars

\* The raw texts: at most MaxRuns runs of 1 or 2 characters.
RawRuns == {Run(c, n) : c \in {"a", " ", "\n"}, n \in {1, 2}}
RawTexts == SeqsUpTo(RawRuns, MaxRuns)

\* webScraper.ts (README.md:154) applied to the body text arg.
ApplyFetchWebPage ==
    /\ ret = None
    /\ ret' = Some([by |-> "fetchWebPage", times |-> 1, text |-> FetchWebPageContent(arg)])
    /\ UNCHANGED <<arg, flowVars, scriptVars>>

\* pdfParser.ts (README.md:107) applied to the PDF's text arg.
ApplyParsePdfFile ==
    /\ ret = None
    /\ ret' = Some([by |-> "parsePdfFile", times |-> 1, text |-> ParsePdfFileText(arg)])
    /\ UNCHANGED <<arg, flowVars, scriptVars>>

\* pdfParser.ts (README.md:121) applied to the PDF's text arg.
ApplyParsePdfBuffer ==
    /\ ret = None
    /\ ret' = Some([by |-> "parsePdfBuffer", times |-> 1, text |-> ParsePdfBufferText(arg)])
    /\ UNCHANGED <<arg, flowVars, scriptVars>>

\* A tool's text given to a tool again as the text to normalize.
ApplyAgain ==
    /\ ret.some
    /\ ret.val.times = 1
    /\ \E tool \in {"fetchWebPage", "parsePdfFile", "parsePdfBuffer"} :
        ret' = Some([by |-> tool, times |-> 2,
                     text |-> CASE tool = "fetchWebPage" -> FetchWebPageContent(ret.val.text)
                                [] tool = "parsePdfFile" -> ParsePdfFileText(ret.val.text)
                                [] OTHER -> ParsePdfBufferText(ret.val.text)])
    /\ UNCHANGED <<arg, flowVars, scriptVars>>

InitNormalize ==
    /\ env = None
    /\ FlowIdle
    /\ arg \in RawTexts
    /\ ret = None
    /\ ScriptIdle

NextNormalize ==
    \/ ApplyFetchWebPage
    \/ ApplyParsePdfFile
    \/ ApplyParsePdfBuffer
    \/ ApplyAgain

SpecNormalize == InitNormalize /\ [][NextNormalize]_vars

\* The final messages: at most MaxBlocks blocks.
BlockTexts == {<<>>, <<"A">>, <<"A", Newline, Newline, "B">>}
Blocks == {Block(ty, tx) : ty \in {"text", "thinking", "tool_use"}, tx \in BlockTexts}
FinalMessages == SeqsUpTo(Blocks, MaxBlocks)

\* webAgent.ts:42-43 applied to the final message arg.
ApplyWebAgentText ==
    /\ ret = None
    /\ ret' = Some([by |-> "webAgent", text |-> WebAgentText(arg)])
    /\ UNCHANGED <<arg, flowVars, scriptVars>>

\* pdfAgent.ts:52-53 applied to the final message arg.
ApplyPdfAgentText ==
    /\ ret = None
    /\ ret' = Some([by |-> "pdfAgent", text |-> PdfAgentText(arg)])
    /\ UNCHANGED <<arg, flowVars, scriptVars>>

\* orchestrator.ts:81-91 applied to the final message arg.
ApplySynthText ==
    /\ ret = None
    /\ LET text == SynthFullText(arg)
       IN  ret' = Some([by |-> "orchestrate", text |-> text,
                        res |-> SplitReply(text, <<>>)])
    /\ UNCHANGED <<arg, flowVars, scriptVars>>

InitReply ==
    /\ env = None
    /\ FlowIdle
    /\ arg \in FinalMessages
    /\ ret = None
    /\ ScriptIdle

NextReply ==
    \/ ApplyWebAgentText
    \/ ApplyPdfAgentText
    \/ ApplySynthText

SpecReply == InitReply /\ [][NextReply]_vars

\* ------------------------------------------------------------------ claims

IsPrefixSeq(p, q) == Len(p) <= Len(q) /\ SubSeq(q, 1, Len(p)) = p

\* The entries of the trace of invocation k that are of one of the kinds.
EventsOf(k, kinds) == SelectSeq(trace[k], LAMBDA e : e.ev \in kinds)

RECURSIVE Flatten(_)
Flatten(ss) == IF ss = <<>> THEN <<>> ELSE Head(ss) \o Flatten(Tail(ss))

\* The analysis calls, their completions and the synthesis call a case with
\* these urls and pdfPaths is to make, in order.
ExpectedCalls(k) ==
    Flatten([n \in 1..Len(UrlsOf(k)) |->
               <<Ev(k, "webAgent", UrlsOf(k)[n]), Ev(k, "webAgent_done", UrlsOf(k)[n])>>])
    \o Flatten([n \in 1..Len(PdfPathsOf(k)) |->
               <<Ev(k, "pdfAgent", PdfPathsOf(k)[n]), Ev(k, "pdfAgent_done", PdfPathsOf(k)[n])>>])
    \o <<Ev(k, "model_synthesis", "synthesis")>>

CallKinds == {"webAgent", "webAgent_done", "pdfAgent", "pdfAgent_done", "model_synthesis"}

\* C1: with N urls and M pdfPaths, orchestrate makes the N web-analysis calls
\* in list order, then the M document-analysis calls in list order, then the
\* one synthesis call, each call begun only after the one before it has
\* completed: at every moment the calls made so far are a prefix of that
\* sequence, and when orchestrate has returned they are the whole of it.
C1_CallOrder ==
    \A k \in Invocations :
        pc[k] # "idle" =>
            /\ IsPrefixSeq(EventsOf(k, CallKinds), ExpectedCalls(k))
            /\ pc[k] = "returned" => EventsOf(k, CallKinds) = ExpectedCalls(k)

C1_Witness ==
    /\ pc["main"] = "returned"
    /\ UrlsOf("main") = <<"u2", "u1">>
    /\ PdfPathsOf("main") = <<"p2", "p1">>
    /\ Len(EventsOf("main", CallKinds)) = 9

\* C2: the sources of the CaseResult orchestrate returns are the urls followed
\* by the pdfPaths of its input, in order, duplicates kept.
C2_Sources ==
    \A k \in Invocations :
        pc[k] = "returned" =>
            /\ result[k].some
            /\ result[k].val.sources = UrlsOf(k) \o PdfPathsOf(k)

C2_Witness ==
    /\ pc["main"] = "returned"
    /\ result["main"].val.sources = <<"u1", "u1", "p1", "p1">>

ThrowsOf(k) == EventsOf(k, {"throw"})
AllKinds == {e.ev : e \in UNION {{trace[k][n] : n \in 1..Len(trace[k])} : k \in Invocations}}

\* C3: when a step of orchestrate fails, orchestrate rejects with that error
\* and has no CaseResult; the failure is the last thing the invocation does (no
\* later analysis call, no synthesis call, nothing left in flight), and the
\* sources and context collected so far are gone.
C3_FailFast ==
    \A k \in Invocations :
        /\ ThrowsOf(k) # <<>> =>
            /\ pc[k] = "rejected"
            /\ Len(ThrowsOf(k)) = 1
            /\ error[k] = Some(ThrowsOf(k)[1].arg)
            /\ LET mine == EventsOf(k, AllKinds) IN mine[Len(mine)].ev = "throw"
            /\ {o \in inflight : o.inv = k} = {}
        /\ pc[k] = "rejected" =>
            /\ ThrowsOf(k) # <<>>
            /\ result[k] = None
            /\ sources[k] = <<>>
            /\ contextParts[k] = <<>>

C3_Witness ==
    /\ pc["main"] = "rejected"
    /\ error["main"] = Some("ParseError")
    /\ EventsOf("main", {"webAgent_done"}) # <<>>
    /\ Len(PdfPathsOf("main")) = 2
    /\ EventsOf("main", {"pdfAgent"}) = <<Ev("main", "pdfAgent", PdfPathsOf("main")[1])>>

\* C4: an invocation of orchestrate has at most one I/O operation (fetch,
\* PDF parse, model call) in flight at any time.
C4_OneInFlight ==
    \A k \in Invocations : Cardinality({o \in inflight : o.inv = k}) <= 1

C4_Witness ==
    /\ \E o \in inflight : o.inv = "main" /\ o.kind = "fetch"
    /\ Len(sources["main"]) = 1

IoKinds == {"fetch", "readFile", "parse"}
ModelKinds == {"model_web", "model_pdf", "model_synthesis"}

\* C5: a case whose urls and pdfPaths are empty or omitted makes no fetch, no
\* file read and no PDF parse; when orchestrate has returned it has made one
\* model call, the synthesis call, and the sources of its result are empty.
C5_EmptyCase ==
    \A k \in Invocations :
        (pc[k] # "idle" /\ UrlsOf(k) = <<>> /\ PdfPathsOf(k) = <<>>) =>
            /\ EventsOf(k, IoKinds) = <<>>
            /\ Len(EventsOf(k, ModelKinds)) <= 1
            /\ pc[k] = "returned" =>
                /\ EventsOf(k, ModelKinds) = <<Ev(k, "model_synthesis", "synthesis")>>
                /\ result[k].val.sources = <<>>

C5_Witness ==
    /\ pc["main"] = "returned"
    /\ input["main"].urls = None
    /\ input["main"].pdfPaths = None
    /\ procPc = "done"

\* The places of arg where a double newline begins.
DoubleNewlinesOf(s) == {n \in 1..(Len(s) - 1) : s[n] = Newline /\ s[n + 1] = Newline}

\* C6: for a reply text with a double newline, decision is the text before
\* the first double newline and reasoning all the text after it; for a reply
\* text without one, decision is the whole text and reasoning is empty.
C6_Split ==
    ret.some =>
        IF DoubleNewlinesOf(arg) = {}
        THEN /\ ret.val.decision = arg
             /\ ret.val.reasoning = <<>>
        ELSE \E n \in DoubleNewlinesOf(arg) :
                /\ \A m \in DoubleNewlinesOf(arg) : n <= m
                /\ ret.val.decision = SubSeq(arg, 1, n - 1)
                /\ ret.val.reasoning = SubSeq(arg, n + 2, Len(arg))

C6_Witness ==
    /\ arg = <<"A", Newline, Newline, "B", Newline, Newline, "A">>
    /\ ret.some
    /\ ret.val.decision = <<"A">>
    /\ ret.val.reasoning = <<"B", Newline, Newline, "A">>

\* p is a prefix of t, as strings.
IsPrefixText(p, t) ==
    LET cp == Canon(p)
        ct == Canon(t)
    IN  \/ cp = <<>>
        \/ /\ Len(cp) <= Len(ct)
           /\ SubSeq(ct, 1, Len(cp) - 1) = SubSeq(cp, 1, Len(cp) - 1)
           /\ cp[Len(cp)].ch = ct[Len(cp)].ch
           /\ cp[Len(cp)].n <= ct[Len(cp)].n

\* The text the agent of invocation k extracted (page.content, parsed.text).
ExtractedText(k) ==
    IF pc[k] = "await_web_model" THEN page[k].val.content ELSE page[k].val.text

\* C7: the text an agent embeds in its prompt is the first 150000 characters
\* of the extracted text: the text itself when it has at most 150000
\* characters, and otherwise its prefix of exactly 150000 characters.
C7_Truncation ==
    \A k \in Invocations :
        pc[k] \in {"await_web_model", "await_pdf_model"} =>
            LET extracted == ExtractedText(k)
                embedded == request[k].val.content.text
            IN  /\ IsPrefixText(embedded, extracted)
                /\ TextLen(extracted) <= MaxContentChars => embedded = extracted
                /\ TextLen(extracted) > MaxContentChars =>
                       TextLen(embedded) = MaxContentChars

C7_Witness ==
    /\ pc["main"] = "await_pdf_model"
    /\ sources["main"] # <<>>
    /\ TextLen(page["main"].val.text) > MaxContentChars
    /\ TextLen(request["main"].val.content.text) = MaxContentChars
    /\ Len(request["main"].val.content.text) > 1

\* C8: with ANTHROPIC_API_KEY unset or empty the process never gets past
\* loading the configuration: orchestrate is not called and no fetch, PDF
\* parse or model call is made.
C8_MissingKey ==
    (~env.some \/ env.val = "") =>
        /\ procPc \in {"boot", "load_failed"}
        /\ \A k \in Invocations : trace[k] = <<>>
        /\ inflight = {}
        /\ \A k \in Invocations : pc[k] = "idle"

C8_Witness ==
    /\ env = Some("")
    /\ procPc = "load_failed"
    /\ exitCode = Some(1)

\* The places of the final message m that hold a block of type "text".
TextBlocksOf(m) == {n \in 1..Len(m) : m[n].type = "text"}

\* C9: in webAgent, pdfAgent and orchestrate, the text taken from a final
\* message is the text of its first block of type "text", whatever comes
\* before it; without such a block it is the empty string, and decision and
\* reasoning are then empty.
C9_FirstTextBlock ==
    ret.some =>
        IF TextBlocksOf(arg) = {}
        THEN /\ ret.val.text = <<>>
             /\ ret.val.by = "orchestrate" =>
                    /\ ret.val.res.decision = <<>>
                    /\ ret.val.res.reasoning = <<>>
        ELSE \E n \in TextBlocksOf(arg) :
                /\ \A m \in TextBlocksOf(arg) : n <= m
                /\ ret.val.text = arg[n].text

C9_Witness ==
    /\ ret.some
    /\ ret.val.by = "pdfAgent"
    /\ Len(arg) = 3
    /\ TextBlocksOf(arg) = {3}
    /\ arg[1].text # arg[3].text
    /\ ret.val.text = <<"A">>

\* What a tool returns for the text t.
NormalizedBy(tool, t) ==
    CASE tool = "fetchWebPage" -> FetchWebPageContent(t)
      [] tool = "parsePdfFile" -> ParsePdfFileText(t)
      [] tool = "parsePdfBuffer" -> ParsePdfBufferText(t)

\* C10: the text fetchWebPage, parsePdfFile and parsePdfBuffer return is
\* unchanged by normalizing it again, begins and ends with no whitespace and
\* has no two adjacent whitespace characters.
C10_NormalizeIdempotent ==
    ret.some =>
        LET t == ret.val.text
        IN  /\ \A tool \in {"fetchWebPage", "parsePdfFile", "parsePdfBuffer"} :
                NormalizedBy(tool, t) = t
            /\ ret.val.times = 2 => t = NormalizedBy(ret.val.by, NormalizedBy(ret.val.by, arg))
            /\ t # <<>> => t[1].ch \notin WhiteSpace /\ t[Len(t)].ch \notin WhiteSpace
            /\ \A n \in 1..Len(t) :
                t[n].ch \in WhiteSpace =>
                    /\ t[n].n = 1
                    /\ n < Len(t) => t[n + 1].ch \notin WhiteSpace

C10_Witness ==
    /\ ret.some
    /\ ret.val.times = 2
    /\ arg = <<Run(" ", 2), Run("a", 1), Run("\n", 2)>>
    /\ ret.val.text = <<Run("a", 1)>>

\* The I/O and model calls of orchestrate for the input of invocation k, in
\* order: per URL a fetch then a model call, per PDF a read, a parse and a
\* model call, then the synthesis call.
ExpectedIo(k) ==
    Flatten([n \in 1..Len(UrlsOf(k)) |->
                << Ev(k, "fetch", UrlsOf(k)[n]),
                   Ev(k, "model_web", UrlsOf(k)[n]) >>])
    \o Flatten([n \in 1..Len(PdfPathsOf(k)) |->
                << Ev(k, "readFile", PdfPathsOf(k)[n]),
                   Ev(k, "parse", PdfPathsOf(k)[n]),
                   Ev(k, "model_pdf", PdfPathsOf(k)[n]) >>])
    \o << Ev(k, "model_synthesis", "synthesis") >>

\* C11: no step is retried. The fetches, reads, parses and model calls of an
\* invocation are a prefix of one pass over its entries (so every entry is
\* fetched or parsed at most once and gets at most one model call, issued after
\* its fetch or parse), and once a step has failed the last call issued stays
\* the failed one: no model call follows a failed fetch, read or parse, and a
\* failed model call is not issued again.
C11_NoRetry ==
    \A k \in Invocations :
        LET io == EventsOf(k, IoKinds \cup ModelKinds)
            all == EventsOf(k, IoKinds \cup ModelKinds \cup {"throw"})
        IN  /\ IsPrefixSeq(io, ExpectedIo(k))
            /\ \A n \in 1..Len(all) :
                    all[n].ev = "throw" =>
                        /\ n = Len(all)
                        /\ n > 1
                        /\ all[n - 1] = io[Len(io)]
            /\ pc[k] = "rejected" => all # <<>> /\ all[Len(all)].ev = "throw"

C11_Witness ==
    /\ pc["main"] = "rejected"
    /\ input["main"].urls = Some(<<"u1", "u2">>)
    /\ EventsOf("main", IoKinds \cup ModelKinds)
         = << Ev("main", "fetch", "u1"), Ev("main", "model_web", "u1"),
              Ev("main", "fetch", "u2") >>

\* The lines main() prints for a result begin with this header.
ResultHeader == Log(<<"DECISAO:">>)

PrintedResult == \E n \in 1..Len(console) : console[n] = ResultHeader

\* C14: when orchestrate has rejected, the entry point does nothing but log
\* the error it was rejected with and end the process with status 1, and has
\* printed no result; a result is on the console only when orchestrate has
\* returned, and then it is the returned one and the process has not failed.
C14_TopLevelCatch ==
    /\ pc["main"] = "rejected" =>
            /\ procPc \in {"awaiting", "exited"}
            /\ ~PrintedResult
    /\ procPc = "exited" =>
            /\ pc["main"] = "rejected"
            /\ exitCode = Some(1)
            /\ console[Len(console)] = Err(<<"Erro fatal:", error["main"].val>>)
            /\ ThrowsOf("main") = <<Ev("main", "throw", error["main"].val)>>
            /\ result["main"] = None
    /\ PrintedResult =>
            /\ pc["main"] = "returned"
            /\ procPc = "done"
            /\ exitCode # Some(1)
            /\ LET lines == ResultLines(result["main"].val)
               IN  SubSeq(console, Len(console) - Len(lines) + 1, Len(console)) = lines

C14_Witness ==
    /\ procPc = "exited"
    /\ exitCode = Some(1)
    /\ error["main"] = Some("UpstreamError")
    /\ Len(EventsOf("main", {"webAgent_done"})) = 1
    /\ ~PrintedResult

\* The label of the n-th context block of invocation k.
BlockLabel(k, n) ==
    IF n <= Len(UrlsOf(k))
    THEN <<"## Fonte web: ", UrlsOf(k)[n], Newline>>
    ELSE <<"## Documento PDF: ", PdfPathsOf(k)[n - Len(UrlsOf(k))], Newline>>

\* C15: while the synthesis call is awaited there is one context block per
\* source, labelled with it, the web blocks first, in list order; the prompt
\* is the query followed by the blocks joined by the separator when there
\* is at least one source, whatever the agents answered, and is the query
\* alone when there is none.
C15_SynthPrompt ==
    \A k \in Invocations :
        pc[k] = "await_synth" =>
            LET parts == contextParts[k]
                total == Len(UrlsOf(k)) + Len(PdfPathsOf(k))
                content == request[k].val.content
            IN  /\ Len(parts) = total
                /\ \A n \in 1..total : SubSeq(parts[n], 1, 3) = BlockLabel(k, n)
                /\ total > 0 =>
                        content = <<"Caso / Consulta:\n", input[k].query,
                                    "\n\n---\n\nInformacoes coletadas pelos agentes:\n">>
                                  \o Join(parts, <<"\n\n---\n\n">>)
                /\ total = 0 => content = <<"Caso / Consulta:\n", input[k].query>>

C15_Witness ==
    /\ pc["main"] = "await_synth"
    /\ contextParts["main"] = << <<"## Fonte web: ", "u1", Newline>>,
                                 <<"## Documento PDF: ", "p1", Newline>> >>
    /\ request["main"].val.content
         = <<"Caso / Consulta:\n", Query,
             "\n\n---\n\nInformacoes coletadas pelos agentes:\n",
             "## Fonte web: ", "u1", Newline, "\n\n---\n\n",
             "## Documento PDF: ", "p1", Newline>>

\* C16: while orchestrate runs, sources and the context blocks have the same
\* length, which is the number of analysis calls that have completed; sources
\* is a prefix of urls followed by pdfPaths, and its entries are the sources
\* of the completed analysis calls, in order.
C16_LoopInvariant ==
    \A k \in Invocations :
        pc[k] \notin {"idle", "returned", "rejected"} =>
            LET done == EventsOf(k, {"webAgent_done", "pdfAgent_done"})
            IN  /\ Len(sources[k]) = Len(contextParts[k])
                /\ Len(sources[k]) = Len(done)
                /\ IsPrefixSeq(sources[k], UrlsOf(k) \o PdfPathsOf(k))
                /\ sources[k] = [n \in 1..Len(done) |-> done[n].arg]

C16_Witness ==
    /\ pc["main"] = "await_pdf_model"
    /\ idx["main"] = 2
    /\ sources["main"] = <<"u1", "p1">>
    /\ Len(contextParts["main"]) = 2

\* C17: the decision holds no double newline, and for a reply that holds a
\* double newline the decision, a double newline and the reasoning, put
\* together, are the reply.
C17_RoundTrip ==
    ret.some =>
        /\ DoubleNewlinesOf(ret.val.decision) = {}
        /\ DoubleNewlinesOf(arg) # {} =>
                ret.val.decision \o <<Newline, Newline>> \o ret.val.reasoning = arg

C17_Witness ==
    /\ ret.some
    /\ arg = <<Newline, Newline, "A", Newline, Newline, Newline, Newline>>
    /\ ret.val.decision = <<>>
    /\ ret.val.reasoning = <<"A", Newline, Newline, Newline, Newline>>

\* The state of invocation k.
StateOf(k) ==
    <<pc[k], input[k], idx[k], sources[k], contextParts[k], page[k], request[k],
      result[k], error[k], trace[k]>>

\* What each invocation holds is its own: its calls are those of its own case,
\* in the order of a run alone; its sources and the labels of its blocks are
\* its own urls and pdfPaths; its request is built from its own page, source
\* and blocks; its result is the split of a synthesis reply with its own
\* sources.
C12_Own ==
    \A k \in Invocations :
        /\ \A n \in 1..Len(trace[k]) : trace[k][n].inv = k
        /\ IsPrefixSeq(EventsOf(k, CallKinds), ExpectedCalls(k))
        /\ IsPrefixSeq(EventsOf(k, IoKinds \cup ModelKinds), ExpectedIo(k))
        /\ pc[k] \notin {"idle", "returned", "rejected"} =>
                LET done == EventsOf(k, {"webAgent_done", "pdfAgent_done"})
                IN  /\ sources[k] = [n \in 1..Len(done) |-> done[n].arg]
                    /\ IsPrefixSeq(sources[k], UrlsOf(k) \o PdfPathsOf(k))
                    /\ Len(contextParts[k]) = Len(sources[k])
                    /\ \A n \in 1..Len(contextParts[k]) :
                            SubSeq(contextParts[k][n], 1, 3) = BlockLabel(k, n)
        /\ pc[k] = "await_web_model" =>
                request[k] = Some(WebAgentRequest(page[k].val, UrlsOf(k)[idx[k]],
                                                  input[k].query))
        /\ pc[k] = "await_synth" =>
                request[k] = Some(SynthRequest(contextParts[k], input[k].query))
        /\ pc[k] = "returned" =>
                /\ EventsOf(k, CallKinds) = ExpectedCalls(k)
                /\ \E content \in SynthReplies :
                        result[k] = Some(SplitReply(SynthFullText(content),
                                                    UrlsOf(k) \o PdfPathsOf(k)))

\* A step changes the state of at most one invocation, and what is in flight
\* for the others stays in flight.
C12_OneAtATime ==
    \A j, k \in Invocations :
        /\ j # k => ~(StateOf(j)' # StateOf(j) /\ StateOf(k)' # StateOf(k))
        /\ StateOf(k)' = StateOf(k) =>
                {o \in inflight' : o.inv = k} = {o \in inflight : o.inv = k}

\* C12: two invocations of orchestrate whose steps interleave are independent:
\* each holds only its own urls, paths, blocks and requests, makes the calls
\* of a run alone in the same order, returns the result of a run alone, and
\* no step of one changes anything of the other.
C12_Independent == []C12_Own /\ [][C12_OneAtATime]_vars

C12_Witness ==
    /\ pc["main"] = "returned"
    /\ pc["second"] = "returned"
    /\ trace["second"][1] = Ev("second", "orchestrate", "during")
    /\ input["main"].urls = Some(<<"u1">>)
    /\ input["second"].urls = Some(<<"u2">>)
    /\ input["second"].pdfPaths = Some(<<"p1">>)
    /\ result["main"].val.sources = <<"u1">>
    /\ result["second"].val.sources = <<"u2", "p1">>

\* The number of entries of the trace of invocation k of these kinds.
CountOf(k, kinds) == Len(EventsOf(k, kinds))

\* C13: an invocation that has returned has made every fetch, parse and model
\* call of its case (N fetches, M parses, N + M + 1 model calls), also when
\* another invocation with the same case has run before it or runs with it.
C13_NothingReused ==
    \A k \in Invocations :
        pc[k] = "returned" =>
            /\ EventsOf(k, IoKinds \cup ModelKinds) = ExpectedIo(k)
            /\ CountOf(k, {"fetch"}) = Len(UrlsOf(k))
            /\ CountOf(k, {"readFile"}) = Len(PdfPathsOf(k))
            /\ CountOf(k, {"parse"}) = Len(PdfPathsOf(k))
            /\ CountOf(k, ModelKinds) = Len(UrlsOf(k)) + Len(PdfPathsOf(k)) + 1

C13_Witness ==
    /\ pc["main"] = "returned"
    /\ pc["second"] = "returned"
    /\ trace["second"][1] = Ev("second", "orchestrate", "after_return")
    /\ input["main"] = input["second"]
    /\ input["second"].urls = Some(<<"u1">>)
    /\ input["second"].pdfPaths = Some(<<"p1">>)
    /\ CountOf("second", {"fetch"}) = 1
    /\ CountOf("second", {"parse"}) = 1
    /\ CountOf("second", ModelKinds) = 3

\* C18: when previewTarefas or the downloadTarefas that scrolls has settled
\* and its page had been created, the browser context and the browser are
\* both closed.
C18_BrowserClosed ==
    (/\ script \in {"previewTarefas", "downloadTarefas_scroll"}
     /\ scriptPc = "settled"
     /\ pageSt # "none")
        => contextSt = "closed" /\ browserSt = "closed"

\* C19: with AGU_EMAIL or AGU_SENHA unset or empty, each of the three scripts
\* rejects with the credential error and has done nothing else: the output
\* directory is not made, no browser is launched, no operation is issued.
C19_CredentialGuard ==
    (aguEnv.email \in {None, Some("")} \/ aguEnv.senha \in {None, Some("")}) =>
        /\ outputDir = FALSE
        /\ browserSt = "none" /\ contextSt = "none" /\ pageSt = "none"
        /\ ops = <<>>
        /\ scriptPc \in {"idle", "settled"}
        /\ scriptPc = "settled" => outcome = Rejected("CredentialError")

C19_Witness ==
    /\ script = "downloadTarefas_api"
    /\ aguEnv = [email |-> Some("user"), senha |-> Some("")]
    /\ scriptPc = "settled"
    /\ outcome = Rejected("CredentialError")
    /\ ops = <<>>

====
